---- MODULE Spec2Model ----
(***************************************************************************)
(* Field-mapping editor: the useMapLogic hook (last variant in             *)
(* hooks/useMapLogic.ts) driven by the handlers of MapComponent.tsx.       *)
(*                                                                         *)
(* React state is modelled slot by slot.  Arrays that the code shares and  *)
(* mutates in place (the points array of a field) live in `heap`; a field  *)
(* holds the address of its points array, so a history entry and the live  *)
(* state can alias the same array exactly as the JavaScript objects do.    *)
(* Every action is one event handler followed by the renders and effects   *)
(* it triggers, run until nothing changes (Settle).                        *)
(***************************************************************************)
EXTENDS Integers, Sequences, FiniteSets, TLC

\* ---------------------------------------------------------------- bounds
MaxSteps == 6     \* events delivered in one run
MaxClock == 3     \* largest value Date.now() returns
MaxPts   == 3     \* points a field can be drawn to by map clicks

\* ------------------------------------------------------- null encodings
NoIndex == -1     \* selectedPoint / hoveredPoint === null
NoId    == 0      \* selectedFieldId === null, currentField?.points undefined

NaN     == -99    \* the number NaN, which no coordinate of the grid equals

Pt(a, b) == [lat |-> a, lng |-> b]

StoredTriangle == << Pt(0, 0), Pt(0, 1), Pt(1, 1) >>
ClickPoints == { Pt(1, 0), Pt(0, 0), Pt(2, 1) }
DragPoints  == { Pt(2, 2), Pt(2, 0) }
CalcPoints  == { Pt(0, 0), Pt(0, 1), Pt(1, 1) }
LengthInputs == { -2, 0, 1, 2, 4 }

\* ------------------------------------------------ geodesic provider stub
Abs(x) == IF x < 0 THEN -x ELSE x

\* google.maps.geometry.spherical.computeDistanceBetween: a metric on the grid
computeDistanceBetween(p, q) == Abs(p.lat - q.lat) + Abs(p.lng - q.lng)

RECURSIVE Shoelace(_, _)
Shoelace(pts, i) ==
  IF i > Len(pts) THEN 0
  ELSE LET p == pts[i]
           q == pts[(i % Len(pts)) + 1]
       IN (p.lng * q.lat - q.lng * p.lat) + Shoelace(pts, i + 1)

\* google.maps.geometry.spherical.computeArea, in square metres
sphericalComputeArea(pts) == Abs(Shoelace(pts, 1)) * 10000

calculateArea(polygonPoints) ==
  IF Len(polygonPoints) < 3 THEN 0
  ELSE sphericalComputeArea(polygonPoints) \div 10000

RECURSIVE SumLengths(_, _)
SumLengths(ms, i) == IF i > Len(ms) THEN 0 ELSE ms[i].length + SumLengths(ms, i + 1)

\* calculatePerimeter without the early return for fewer than two points
calculatePerimeterUnguarded(polygonPoints) ==
  LET n  == Len(polygonPoints)
      ms == [i \in 1..n |->
               [length |-> computeDistanceBetween(polygonPoints[i],
                                                  polygonPoints[(i % n) + 1]),
                width  |-> 0]]
  IN [totalDistance |-> SumLengths(ms, 1), lineMeasurements |-> ms]

\* calculatePerimeter measuring the last edge from the last point to itself
calculatePerimeterLastToSelf(polygonPoints) ==
  IF Len(polygonPoints) < 2 THEN [totalDistance |-> 0, lineMeasurements |-> << >>]
  ELSE LET n  == Len(polygonPoints)
           ms == [i \in 1..n |->
                    [length |-> computeDistanceBetween(polygonPoints[i],
                                  polygonPoints[IF i < n THEN i + 1 ELSE n]),
                     width  |-> 0]]
       IN [totalDistance |-> SumLengths(ms, 1), lineMeasurements |-> ms]

\* calculatePerimeter without the edge that closes the polygon
calculatePerimeterOpen(polygonPoints) ==
  IF Len(polygonPoints) < 2 THEN [totalDistance |-> 0, lineMeasurements |-> << >>]
  ELSE LET n  == Len(polygonPoints)
           ms == [i \in 1..(n - 1) |->
                    [length |-> computeDistanceBetween(polygonPoints[i],
                                                       polygonPoints[i + 1]),
                     width  |-> 0]]
       IN [totalDistance |-> SumLengths(ms, 1), lineMeasurements |-> ms]

calculatePerimeter(polygonPoints) ==
  IF Len(polygonPoints) < 2 THEN [totalDistance |-> 0, lineMeasurements |-> << >>]
  ELSE LET n  == Len(polygonPoints)
           ms == [i \in 1..n |->
                    [length |-> computeDistanceBetween(polygonPoints[i],
                                                       polygonPoints[(i % n) + 1]),
                     width  |-> 0]]
       IN [totalDistance |-> SumLengths(ms, 1), lineMeasurements |-> ms]

\* ------------------------------------------------------------ variables
VARIABLES
  mounted,              \* the mount effects have run
  isDrawing,
  fields,               \* Field[]; each field holds the address of its points array
  fieldsRef,            \* identity of the `fields` array (effect dependency)
  refCount,             \* identities handed out so far
  currentField,         \* << >> (null) or << field >>
  heap,                 \* heap[a] = contents of the points array at address a
  history,              \* HistoryState[]: [fields, fieldsRef, currentField]
  historyIndex,         \* 0-based as in the source; -1 before the first entry
  shouldSaveToHistory,
  selectedPoint, selectedFieldId, hoveredPoint,
  isMovingPoint, tempPoints,
  isMovingRef, currentPointsRef,
  mapDraggable,         \* map options draggable / scrollwheel / gestureHandling
  storage,              \* localStorage[STORAGE_KEY]
  now,                  \* last value returned by Date.now()
  timers,               \* pending timeouts of the debounced recompute effect
  gesture,              \* pointer drag in progress on a marker (browser side)
  steps,                \* events delivered so far
  ghost,                \* observation of the run of edits, read only by the properties
  last,                 \* observation of the last event, read only by the properties
  calc,                 \* the last call of a calculation on heap[1], and what it returned
  locate                \* isLocating, userLocation and the geolocation request

hookVars == << mounted, isDrawing, fields, fieldsRef, refCount, currentField, heap,
               history, historyIndex, shouldSaveToHistory, selectedPoint,
               selectedFieldId, hoveredPoint, isMovingPoint, tempPoints,
               isMovingRef, currentPointsRef, mapDraggable,
               storage, now, timers >>
vars == << hookVars, gesture, steps, ghost, last, calc, locate >>

\* The hook state as one record, so that a handler is a function on records.
St == [ mounted |-> mounted, isDrawing |-> isDrawing, fields |-> fields,
        fieldsRef |-> fieldsRef, refCount |-> refCount,
        currentField |-> currentField, heap |-> heap, history |-> history,
        historyIndex |-> historyIndex, shouldSaveToHistory |-> shouldSaveToHistory,
        selectedPoint |-> selectedPoint, selectedFieldId |-> selectedFieldId,
        hoveredPoint |-> hoveredPoint, isMovingPoint |-> isMovingPoint,
        tempPoints |-> tempPoints,
        isMovingRef |-> isMovingRef, currentPointsRef |-> currentPointsRef,
        mapDraggable |-> mapDraggable, storage |-> storage, now |-> now,
        timers |-> timers ]

Install(s) ==
  /\ mounted' = s.mounted
  /\ isDrawing' = s.isDrawing
  /\ fields' = s.fields
  /\ fieldsRef' = s.fieldsRef
  /\ refCount' = s.refCount
  /\ currentField' = s.currentField
  /\ heap' = s.heap
  /\ history' = s.history
  /\ historyIndex' = s.historyIndex
  /\ shouldSaveToHistory' = s.shouldSaveToHistory
  /\ selectedPoint' = s.selectedPoint
  /\ selectedFieldId' = s.selectedFieldId
  /\ hoveredPoint' = s.hoveredPoint
  /\ isMovingPoint' = s.isMovingPoint
  /\ tempPoints' = s.tempPoints
  /\ isMovingRef' = s.isMovingRef
  /\ currentPointsRef' = s.currentPointsRef
  /\ mapDraggable' = s.mapDraggable
  /\ storage' = s.storage
  /\ now' = s.now
  /\ timers' = s.timers

\* --------------------------------------------------------------- helpers
HasCF(s) == Len(s.currentField) = 1
CF(s) == s.currentField[1]

\* currentField?.points as an effect dependency (identity of the array)
PointsDep(s) == IF HasCF(s) THEN CF(s).points ELSE NoId

\* [...prev, x] / new array: a fresh identity for the fields array
WithFields(s, fs) ==
  [s EXCEPT !.fields = fs, !.fieldsRef = s.refCount + 1, !.refCount = s.refCount + 1]

NewAddr(s) == Len(s.heap) + 1
Alloc(s, pts) == [s EXCEPT !.heap = Append(s.heap, pts)]

\* fields.find(f => f.id === fieldId): position of the first match, 0 if none
RECURSIVE FindFrom(_, _, _)
FindFrom(fs, id, i) ==
  IF i > Len(fs) THEN 0
  ELSE IF fs[i].id = id THEN i ELSE FindFrom(fs, id, i + 1)
FindField(fs, id) == FindFrom(fs, id, 1)

\* A field with its points array read out of the heap
DerefField(f, h) ==
  [id |-> f.id, points |-> h[f.points], area |-> f.area,
   perimeter |-> f.perimeter, measurements |-> f.measurements]
DerefFields(fs, h) == [i \in 1..Len(fs) |-> DerefField(fs[i], h)]

\* What the user sees of the store: fields and currentField by value
View(s) == [fields |-> DerefFields(s.fields, s.heap),
            currentField |-> DerefFields(s.currentField, s.heap)]

EntryView(e, h) == [fields |-> DerefFields(e.fields, h),
                    currentField |-> DerefFields(e.currentField, h)]

\* JSON.stringify(fields) / JSON.parse
Stringify(s) == [kind |-> "json", val |-> DerefFields(s.fields, s.heap)]

RECURSIVE ParseInto(_, _, _)
ParseInto(s, val, i) ==
  IF i > Len(val) THEN s
  ELSE LET f == [id |-> val[i].id, points |-> NewAddr(s), area |-> val[i].area,
                 perimeter |-> val[i].perimeter,
                 measurements |-> val[i].measurements]
           s1 == Alloc(s, val[i].points)
       IN ParseInto([s1 EXCEPT !.fields = Append(s1.fields, f)], val, i + 1)

HistoryEntry(s) ==
  [fields |-> s.fields, fieldsRef |-> s.fieldsRef, currentField |-> s.currentField]


\* Identities (addresses of points arrays, identity of the fields array) matter
\* only up to equality.  After every action they are renamed to their rank in
\* order of first occurrence (history first, then the live state), and arrays
\* nothing refers to any more are dropped.
AddrsOfFields(fs) == [i \in 1..Len(fs) |-> fs[i].points]

RECURSIVE HistoryAddrs(_, _)
HistoryAddrs(h, i) ==
  IF i > Len(h) THEN << >>
  ELSE AddrsOfFields(h[i].fields) \o AddrsOfFields(h[i].currentField)
       \o HistoryAddrs(h, i + 1)

RECURSIVE Dedup(_, _, _)
Dedup(q, i, acc) ==
  IF i > Len(q) THEN acc
  ELSE IF \E j \in 1..Len(acc) : acc[j] = q[i]
       THEN Dedup(q, i + 1, acc)
       ELSE Dedup(q, i + 1, Append(acc, q[i]))

\* the points arrays the closures of the pending timeouts hold
TimerAddrs(ts) == [i \in 1..Len(ts) |-> ts[i].currentField.points]

Rank(order, x) == CHOOSE i \in 1..Len(order) : order[i] = x

Renamed(s, addrs, refs) ==
  LET rf(f) == [f EXCEPT !.points = Rank(addrs, f.points)]
      rfs(fs) == [i \in 1..Len(fs) |-> rf(fs[i])]
  IN [s EXCEPT
        !.heap = [i \in 1..Len(addrs) |-> s.heap[addrs[i]]],
        !.fields = rfs(s.fields),
        !.currentField = rfs(s.currentField),
        !.fieldsRef = Rank(refs, s.fieldsRef),
        !.refCount = Len(refs),
        !.timers = [i \in 1..Len(s.timers) |->
                      [s.timers[i] EXCEPT !.currentField = rf(@)]],
        !.history = [i \in 1..Len(s.history) |->
                       [fields |-> rfs(s.history[i].fields),
                        fieldsRef |-> Rank(refs, s.history[i].fieldsRef),
                        currentField |-> rfs(s.history[i].currentField)]]]

Canon(s) ==
  CHOOSE r \in
    { Renamed(s, addrs, refs) :
        addrs \in { Dedup(HistoryAddrs(s.history, 1) \o AddrsOfFields(s.fields)
                             \o AddrsOfFields(s.currentField)
                             \o TimerAddrs(s.timers), 1, << >>) },
        refs \in { Dedup([i \in 1..Len(s.history) |-> s.history[i].fieldsRef]
                            \o << s.fieldsRef >>, 1, << >>) } } : TRUE

\* ------------------------------------------------- renders and effects
\* saveToHistory appending to the whole history instead of the slice
saveToHistoryKeepingFuture(c, b) ==
  IF ~b.shouldSaveToHistory THEN c
  ELSE [c EXCEPT !.history = Append(b.history, HistoryEntry(b)),
                 !.historyIndex = @ + 1,
                 !.shouldSaveToHistory = FALSE]

\* saveToHistory advancing the cursor without recording the entry
saveToHistoryCursorOnly(c, b) ==
  IF ~b.shouldSaveToHistory THEN c
  ELSE [c EXCEPT !.history = SubSeq(b.history, 1, b.historyIndex + 1),
                 !.historyIndex = @ + 1,
                 !.shouldSaveToHistory = FALSE]

\* saveToHistory() as created in the render with state b: the state updates
\* it queues, applied to c.
saveToHistory(c, b) ==
  IF ~b.shouldSaveToHistory THEN c
  ELSE LET newHistory == SubSeq(b.history, 1, b.historyIndex + 1)
       IN [c EXCEPT !.history = Append(newHistory, HistoryEntry(b)),
                    !.historyIndex = @ + 1,
                    !.shouldSaveToHistory = FALSE]

\* the load effect reading back the stored triangle whatever the storage holds
loadSavedFieldsUnguarded(b) ==
  LET val == IF b.storage.kind = "none" THEN << >>
             ELSE [i \in 1..1 |->
                     [id |-> 1, points |-> StoredTriangle, area |-> 0,
                      perimeter |-> 0, measurements |-> << >>]]
      l == ParseInto([b EXCEPT !.fields = << >>], val, 1)
  IN IF Len(val) > 0
     THEN [l EXCEPT !.fieldsRef = b.refCount + 1, !.refCount = b.refCount + 1]
     ELSE b

\* The load effect: getItem, and setFields(JSON.parse(...)) when there is a
\* value; a value that does not parse throws into the catch, which only logs.
loadSavedFields(b) ==
  IF b.storage.kind = "json"
  THEN LET l == ParseInto([b EXCEPT !.fields = << >>], b.storage.val, 1)
       IN [l EXCEPT !.fieldsRef = b.refCount + 1, !.refCount = b.refCount + 1]
  ELSE b

\* clearTimeout(timeoutId) in the cleanup of the debounced recompute effect:
\* timeoutId is the timeout the latest run of the effect has set.
IsEarlier(t) == ~t.latest
clearTimeout(ts) == SelectSeq(ts, IsEarlier)

Earlier(ts) == [i \in 1..Len(ts) |-> [ts[i] EXCEPT !.latest = FALSE]]

\* the debounced recompute effect leaving the timeouts of its earlier runs pending
debouncedRecomputeNoCleanup(c, b) ==
  IF ~HasCF(b) \/ Len(b.heap[CF(b).points]) < 3 \/ b.isMovingRef
  THEN c
  ELSE [c EXCEPT !.timers = Append(Earlier(c.timers),
                                   [latest |-> TRUE, currentField |-> CF(b)])]

\* The debounced recompute effect, run in the render with state b because
\* currentField?.points changed: the cleanup of its previous run, then the
\* early return or setTimeout(..., 100) with currentField in the closure.
debouncedRecompute(c, b) ==
  LET cleared == clearTimeout(c.timers)
  IN IF ~HasCF(b) \/ Len(b.heap[CF(b).points]) < 3 \/ b.isMovingRef
     THEN [c EXCEPT !.timers = cleared]
     ELSE [c EXCEPT !.timers = Append(Earlier(cleared),
                                      [latest |-> TRUE, currentField |-> CF(b)])]

\* The callback of the i-th pending timeout: it reads the points array its
\* closure holds and writes onto whatever the current field is by then.
onTimeout(s, i) ==
  LET t == s.timers[i]
      pts == s.heap[t.currentField.points]
      newArea == calculateArea(pts)
      per == calculatePerimeter(pts)
      s1 == [s EXCEPT !.timers = [j \in 1..(Len(s.timers) - 1) |->
                                    IF j < i THEN s.timers[j] ELSE s.timers[j + 1]]]
  IN IF /\ \/ newArea # t.currentField.area
           \/ per.totalDistance # t.currentField.perimeter
           \/ per.lineMeasurements # t.currentField.measurements
        /\ HasCF(s)
     THEN [s1 EXCEPT !.currentField =
             << [CF(s) EXCEPT !.area = newArea,
                              !.perimeter = per.totalDistance,
                              !.measurements = per.lineMeasurements] >>]
     ELSE s1

\* One render with closure state b, the previous render having had state a:
\* every effect whose dependencies changed runs against b, and the state
\* updates they queue are applied in the order the effects are declared.
EffectsOf(a, b, mount) ==
  LET fieldsChanged == mount \/ a.fieldsRef # b.fieldsRef
      pointsChanged == mount \/ PointsDep(a) # PointsDep(b)
      saveDeps == \/ mount
                  \/ a.shouldSaveToHistory # b.shouldSaveToHistory
                  \/ fieldsChanged
                  \/ a.currentField # b.currentField
                  \/ a.history # b.history
                  \/ a.historyIndex # b.historyIndex
      \* load effect
      c1 == IF mount THEN loadSavedFields(b) ELSE b
      \* save effect
      c2 == IF fieldsChanged THEN [c1 EXCEPT !.storage = Stringify(b)] ELSE c1
      \* initial-state effect
      c3 == IF mount /\ Len(b.history) = 0
            THEN [c2 EXCEPT !.history = << HistoryEntry(b) >>, !.historyIndex = 0]
            ELSE c2
      \* history-watch effect
      c4 == IF (fieldsChanged \/ pointsChanged) /\ ~b.isMovingRef
            THEN [c3 EXCEPT !.shouldSaveToHistory = TRUE]
            ELSE c3
      \* save-to-history effect, calling saveToHistory()
      c5 == IF saveDeps /\ b.shouldSaveToHistory /\ ~b.isMovingRef
            THEN saveToHistory(c4, b)
            ELSE c4
      \* MapComponent measurement effect
      c6 == IF pointsChanged /\ HasCF(b) /\ Len(b.heap[CF(b).points]) >= 3
            THEN LET pts == b.heap[CF(b).points]
                     newArea == calculateArea(pts)
                     per == calculatePerimeter(pts)
                 IN IF \/ newArea # CF(b).area
                       \/ per.totalDistance # CF(b).perimeter
                       \/ per.lineMeasurements # CF(b).measurements
                    THEN [c5 EXCEPT !.currentField =
                            << [CF(b) EXCEPT !.area = newArea,
                                             !.perimeter = per.totalDistance,
                                             !.measurements = per.lineMeasurements] >>]
                    ELSE c5
            ELSE c5
      \* debounced recompute effect of the hook
      c7 == IF pointsChanged THEN debouncedRecompute(c6, b) ELSE c6
  IN c7

\* Re-render until no effect changes the state any more.
RECURSIVE Settle(_, _)
Settle(a, b) ==
  CHOOSE r \in { IF c = b THEN b ELSE Settle(b, c) : c \in {EffectsOf(a, b, FALSE)} } : TRUE

\* ------------------------------------------------------- hook handlers
canUndo(s) == s.historyIndex > 0
canRedo(s) == s.historyIndex < Len(s.history) - 1

undo(s) ==
  IF s.historyIndex > 0
  THEN LET previousState == s.history[(s.historyIndex - 1) + 1]
       IN [s EXCEPT !.fields = previousState.fields,
                    !.fieldsRef = previousState.fieldsRef,
                    !.currentField = previousState.currentField,
                    !.historyIndex = s.historyIndex - 1,
                    !.shouldSaveToHistory = FALSE,
                    !.tempPoints = << >>,
                    !.selectedPoint = NoIndex,
                    !.selectedFieldId = NoId,
                    !.isMovingPoint = FALSE,
                    !.hoveredPoint = NoIndex]
  ELSE s

\* redo with the reset of the movement states moved out of the guard
redoResettingAlways(s) ==
  LET r == IF s.historyIndex < Len(s.history) - 1
           THEN LET nextState == s.history[(s.historyIndex + 1) + 1]
                IN [s EXCEPT !.fields = nextState.fields,
                             !.fieldsRef = nextState.fieldsRef,
                             !.currentField = nextState.currentField,
                             !.historyIndex = s.historyIndex + 1,
                             !.shouldSaveToHistory = FALSE]
           ELSE s
  IN [r EXCEPT !.tempPoints = << >>,
               !.selectedPoint = NoIndex,
               !.selectedFieldId = NoId,
               !.isMovingPoint = FALSE,
               !.hoveredPoint = NoIndex]

redo(s) ==
  IF s.historyIndex < Len(s.history) - 1
  THEN LET nextState == s.history[(s.historyIndex + 1) + 1]
       IN [s EXCEPT !.fields = nextState.fields,
                    !.fieldsRef = nextState.fieldsRef,
                    !.currentField = nextState.currentField,
                    !.historyIndex = s.historyIndex + 1,
                    !.shouldSaveToHistory = FALSE,
                    !.tempPoints = << >>,
                    !.selectedPoint = NoIndex,
                    !.selectedFieldId = NoId,
                    !.isMovingPoint = FALSE,
                    !.hoveredPoint = NoIndex]
  ELSE s

\* adjustLineLength writing the new end point into the array it was given
adjustLineLengthInPlace(s, points, index, newLength) ==
  LET pts == s.heap[points]
      n == Len(pts)
      j == ((index + 1) % n) + 1
      point1 == pts[index + 1]
      currentLength == computeDistanceBetween(point1, pts[j])
      newPoint2 ==
        IF currentLength = 0 THEN [lat |-> NaN, lng |-> NaN]
        ELSE [lat |-> point1.lat + ((pts[j].lat - point1.lat) * newLength) \div currentLength,
              lng |-> point1.lng + ((pts[j].lng - point1.lng) * newLength) \div currentLength]
      newPoints == [pts EXCEPT ![j] = newPoint2]
  IN Alloc([s EXCEPT !.heap[points] = newPoints], newPoints)

\* adjustLineLength(points, index, newLength); points is the address of the
\* array passed in, and the array returned is the one at NewAddr(s).
\* scale = newLength / currentLength is Infinity or NaN when currentLength is
\* 0; dx and dy are 0 then, 0 * Infinity and 0 * NaN are NaN, and both
\* coordinates of the new end point are NaN.  Otherwise dy * scale is
\* computed as (dy * newLength) / currentLength, which is exact for the
\* lengths of LengthInputs that Exact lets through.
adjustLineLength(s, points, index, newLength) ==
  LET pts == s.heap[points]
      n == Len(pts)
      j == ((index + 1) % n) + 1
      point1 == pts[index + 1]
      point2 == pts[j]
      currentLength == computeDistanceBetween(point1, point2)
      dx == point2.lng - point1.lng
      dy == point2.lat - point1.lat
      newPoint2 ==
        IF currentLength = 0 THEN [lat |-> NaN, lng |-> NaN]
        ELSE [lat |-> point1.lat + (dy * newLength) \div currentLength,
              lng |-> point1.lng + (dx * newLength) \div currentLength]
  IN Alloc(s, [pts EXCEPT ![j] = newPoint2])

clearSavedFields(s) ==
  WithFields([s EXCEPT !.storage = [kind |-> "none", val |-> << >>]], << >>)

\* handleMarkerHover asking for a history snapshot
handleMarkerHoverSnapshot(s, index) ==
  IF ~s.isMovingRef THEN [s EXCEPT !.hoveredPoint = index, !.shouldSaveToHistory = TRUE]
  ELSE s

\* hoveredPointRef.current is assigned here and read nowhere; it is not modelled.
handleMarkerHover(s, index) ==
  IF ~s.isMovingRef THEN [s EXCEPT !.hoveredPoint = index] ELSE s

\* handleMovementStart capturing the draft only when no movement is under way
handleMovementStartKeepingDraft(s, index, fieldId, points) ==
  [s EXCEPT !.currentPointsRef = IF s.isMovingRef THEN @ ELSE points,
            !.isMovingRef = TRUE,
            !.selectedPoint = index,
            !.selectedFieldId = fieldId,
            !.isMovingPoint = TRUE,
            !.tempPoints = points,
            !.mapDraggable = FALSE]

handleMovementStart(s, index, fieldId, points) ==
  [s EXCEPT !.currentPointsRef = points,
            !.isMovingRef = TRUE,
            !.selectedPoint = index,
            !.selectedFieldId = fieldId,
            !.isMovingPoint = TRUE,
            !.tempPoints = points,
            !.mapDraggable = FALSE]

\* index is 0-based as in the source; cl is the render whose closure the
\* handler was created in (its `fields` and `currentField`).
handleMarkerDrag(s, cl, newPoint, index, fieldId) ==
  IF fieldId # NoId
  THEN LET k == FindField(cl.fields, fieldId)
       IN IF k # 0 /\ index < Len(s.heap[cl.fields[k].points])
          THEN [s EXCEPT !.heap[cl.fields[k].points][index + 1] = newPoint]
          ELSE s
  ELSE IF HasCF(cl) /\ index < Len(s.heap[CF(cl).points])
       THEN LET s1 == [s EXCEPT !.heap[CF(cl).points][index + 1] = newPoint]
            IN IF Len(s.currentPointsRef) = 0
               THEN [s1 EXCEPT !.currentPointsRef = s1.heap[CF(cl).points]]
               ELSE IF index < Len(s.currentPointsRef)
                    THEN [s1 EXCEPT !.currentPointsRef[index + 1] = newPoint]
                    ELSE [s1 EXCEPT !.currentPointsRef = Append(s.currentPointsRef, newPoint)]
       ELSE s

handleMovementEnd(s) ==
  LET finalPoints == s.currentPointsRef
      newArea == calculateArea(finalPoints)
      per == calculatePerimeter(finalPoints)
      upd(f, a) == [f EXCEPT !.points = a, !.area = newArea,
                             !.perimeter = per.totalDistance,
                             !.measurements = per.lineMeasurements]
      s1 == [s EXCEPT !.mapDraggable = TRUE]
      s2 == IF Len(finalPoints) > 0
            THEN IF s.selectedFieldId # NoId
                 THEN LET a == NewAddr(s1)
                      IN WithFields(Alloc(s1, finalPoints),
                           [i \in 1..Len(s1.fields) |->
                              IF s1.fields[i].id = s.selectedFieldId
                              THEN upd(s1.fields[i], a) ELSE s1.fields[i]])
                 ELSE IF HasCF(s)
                      THEN LET a == NewAddr(s1)
                           IN [Alloc(s1, finalPoints) EXCEPT
                                 !.currentField = << upd(CF(s1), a) >>]
                      ELSE s1
            ELSE s1
  IN [s2 EXCEPT !.currentPointsRef = << >>,
                !.isMovingRef = FALSE,
                !.isMovingPoint = FALSE,
                !.selectedPoint = NoIndex,
                !.selectedFieldId = NoId,
                !.hoveredPoint = NoIndex,
                !.shouldSaveToHistory = TRUE]


\* ------------------------------------------------ MapComponent handlers
\* handleMapClick without the early return when drawing mode is off
handleMapClickAlways(s, newPoint, t) ==
  IF ~HasCF(s)
  THEN [Alloc(s, << newPoint >>) EXCEPT
          !.currentField = << [id |-> t, points |-> NewAddr(s), area |-> 0,
                               perimeter |-> 0, measurements |-> << >>] >>,
          !.now = t]
  ELSE [Alloc(s, Append(s.heap[CF(s).points], newPoint)) EXCEPT
          !.currentField = << [CF(s) EXCEPT !.points = NewAddr(s)] >>]

\* handleCreateOption replacing the current field without saving it
handleCreateOptionDiscarding(s, t) ==
  [Alloc(s, << >>) EXCEPT
     !.currentField = << [id |-> t, points |-> NewAddr(s), area |-> 0,
                          perimeter |-> 0, measurements |-> << >>] >>,
     !.isDrawing = TRUE,
     !.now = t]

\* handleCreateOption leaving the finalized field in the current-field slot
handleCreateOptionKeeping(s, t) ==
  LET s1 == IF HasCF(s)
            THEN LET per == calculatePerimeter(s.heap[CF(s).points])
                     finalField == [CF(s) EXCEPT !.perimeter = per.totalDistance,
                                                 !.measurements = per.lineMeasurements]
                 IN WithFields(s, Append(s.fields, finalField))
            ELSE s
  IN IF HasCF(s)
     THEN [s1 EXCEPT !.isDrawing = TRUE, !.now = t]
     ELSE [Alloc(s1, << >>) EXCEPT
             !.currentField = << [id |-> t, points |-> NewAddr(s1), area |-> 0,
                                  perimeter |-> 0, measurements |-> << >>] >>,
             !.isDrawing = TRUE,
             !.now = t]

\* Date.now() is passed in as t.
handleMapClick(s, newPoint, t) ==
  IF ~s.isDrawing THEN s
  ELSE IF ~HasCF(s)
       THEN [Alloc(s, << newPoint >>) EXCEPT
               !.currentField = << [id |-> t, points |-> NewAddr(s), area |-> 0,
                                    perimeter |-> 0, measurements |-> << >>] >>,
               !.now = t]
       ELSE [Alloc(s, Append(s.heap[CF(s).points], newPoint)) EXCEPT
               !.currentField = << [CF(s) EXCEPT !.points = NewAddr(s)] >>]

handleCreateOption(s, t) ==
  LET s1 == IF HasCF(s)
            THEN LET per == calculatePerimeter(s.heap[CF(s).points])
                     finalField == [CF(s) EXCEPT !.perimeter = per.totalDistance,
                                                 !.measurements = per.lineMeasurements]
                 IN WithFields(s, Append(s.fields, finalField))
            ELSE s
  IN [Alloc(s1, << >>) EXCEPT
        !.currentField = << [id |-> t, points |-> NewAddr(s1), area |-> 0,
                             perimeter |-> 0, measurements |-> << >>] >>,
        !.isDrawing = TRUE,
        !.now = t]

\* fieldId ? fields.find(f => f.id === fieldId)?.points : currentField?.points
\* as << >> (undefined) or << address >>
PointsOf(s, fieldId) ==
  IF fieldId # NoId
  THEN LET k == FindField(s.fields, fieldId)
       IN IF k # 0 THEN << s.fields[k].points >> ELSE << >>
  ELSE IF HasCF(s) THEN << CF(s).points >> ELSE << >>

handleMarkerClick(s, index, fieldId) ==
  LET points == PointsOf(s, fieldId)
  IN IF Len(points) = 1
     THEN handleMovementStart(s, index, fieldId, s.heap[points[1]])
     ELSE [s EXCEPT !.selectedPoint = index, !.selectedFieldId = fieldId]

handleMarkerDragStart(s, index, fieldId) ==
  LET points == PointsOf(s, fieldId)
      s1 == IF Len(points) = 1
            THEN handleMovementStart(s, index, fieldId, s.heap[points[1]])
            ELSE s
  IN [s1 EXCEPT !.mapDraggable = FALSE]

\* Marker onDrag of a committed field's vertex, through the component's
\* handleMarkerDrag wrapper (index and field.id are the marker's own).
onDragCommitted(s, newPoint, index, fieldId) ==
  handleMarkerDrag(s, s, newPoint, index, fieldId)

\* Selected marker onDrag of the current field
onDragCurrent(s, newPoint) ==
  IF s.selectedPoint # NoIndex
  THEN handleMarkerDrag(s, s, newPoint, s.selectedPoint, s.selectedFieldId)
  ELSE s

\* Marker onDragEnd of a committed field's vertex
onDragEndCommitted(s, newPoint, index, fieldId) ==
  handleMarkerDrag(handleMovementEnd(s), s, newPoint, index, fieldId)

\* Selected marker onDragEnd of the current field
onDragEndCurrent(s) == handleMovementEnd(s)

\* The points a committed field is drawn with (Polygon paths / markers)
RenderedPoints(s, f) ==
  IF s.isMovingPoint /\ s.selectedFieldId = f.id THEN s.tempPoints ELSE s.heap[f.points]

\* newPoints.splice(index + 1, 0, newPoint) with the splice position moved to index
SpliceBefore(points, index, newPoint) ==
  SubSeq(points, 1, index) \o << newPoint >> \o SubSeq(points, index + 1, Len(points))

\* const newPoints = [...points]; newPoints.splice(index + 1, 0, newPoint)
Splice(points, index, newPoint) ==
  SubSeq(points, 1, index + 1) \o << newPoint >> \o SubSeq(points, index + 2, Len(points))

\* Midpoint marker onDragStart of a committed field; points is the array the
\* markers were drawn from, newPoint is e.latLng
onMidDragStartCommitted(s, newPoint, index, fieldId, points) ==
  LET newPoints == Splice(points, index, newPoint)
      a == NewAddr(s)
      s1 == WithFields(Alloc(s, newPoints),
              [i \in 1..Len(s.fields) |->
                 IF s.fields[i].id = fieldId
                 THEN [s.fields[i] EXCEPT !.points = a] ELSE s.fields[i]])
  IN handleMovementStart(s1, index + 1, fieldId, newPoints)

\* Midpoint marker onDragStart of the current field
onMidDragStartCurrent(s, newPoint, index) ==
  IF HasCF(s)
  THEN LET newPoints == Splice(s.heap[CF(s).points], index, newPoint)
           s1 == [Alloc(s, newPoints) EXCEPT
                    !.currentField = << [CF(s) EXCEPT !.points = NewAddr(s)] >>]
       IN handleMovementStart(s1, index + 1, NoId, newPoints)
  ELSE s

\* Midpoint marker onDrag (fieldId is field.id, NoId for the current field)
onMidDrag(s, newPoint, fieldId) ==
  IF s.selectedPoint # NoIndex
  THEN handleMarkerDrag(s, s, newPoint, s.selectedPoint, fieldId)
  ELSE s

\* Midpoint marker onDragEnd
onMidDragEnd(s) == IF s.isMovingPoint THEN handleMovementEnd(s) ELSE s

FieldIds(s) == { s.fields[i].id : i \in 1..Len(s.fields) }

\* a vertex marker of committed field fieldId with this index is rendered
CommittedMarker(s, fieldId, index) ==
  \E k \in 1..Len(s.fields) :
     s.fields[k].id = fieldId /\ index < Len(RenderedPoints(s, s.fields[k]))

Selected(s, fieldId, index) == s.selectedPoint = index /\ s.selectedFieldId = fieldId

\* a marker with drag handlers for vertex index of fieldId (the current field
\* when NoId) is rendered: any vertex marker of a committed field, only the
\* selected marker of the current field
DragMarker(s, fieldId, index) ==
  IF fieldId # NoId THEN CommittedMarker(s, fieldId, index)
  ELSE HasCF(s) /\ index < Len(s.heap[CF(s).points]) /\ Selected(s, NoId, index)

\* the midpoint marker after vertex index of fieldId (the current field when
\* NoId) is rendered
MidMarker(s, fieldId, index) ==
  IF fieldId # NoId
  THEN \E k \in 1..Len(s.fields) :
          s.fields[k].id = fieldId /\ index < Len(RenderedPoints(s, s.fields[k])) - 1
  ELSE HasCF(s) /\ index < Len(s.heap[CF(s).points]) - 1

\* point p is a vertex of a committed field or of the current field
Contains(s, p) ==
  \/ \E k \in 1..Len(s.fields) :
       \E i \in 1..Len(s.heap[s.fields[k].points]) : s.heap[s.fields[k].points][i] = p
  \/ HasCF(s) /\ \E i \in 1..Len(s.heap[CF(s).points]) : s.heap[CF(s).points][i] = p

\* some vertex marker with this index is rendered
MarkerAt(s, index) ==
  \/ \E k \in 1..Len(s.fields) : index < Len(RenderedPoints(s, s.fields[k]))
  \/ HasCF(s) /\ index < Len(s.heap[CF(s).points])

\* ------------------------------------------------------------------ Init
StoredField ==
  LET per == calculatePerimeter(StoredTriangle)
  IN [id |-> 1, points |-> StoredTriangle, area |-> calculateArea(StoredTriangle),
      perimeter |-> per.totalDistance, measurements |-> per.lineMeasurements]

InitialStorage ==
  { [kind |-> "none", val |-> << >>],
    [kind |-> "json", val |-> << StoredField >>],
    [kind |-> "corrupt", val |-> << >>] }

\* fieldId, index: the marker being dragged; mid: it is a midpoint marker.  The
\* rest are observations:
\* startPts the target's points at drag start, last the last point dragged to,
\* fresh whether that point occurred in no points array before it was dragged to,
\* clean whether nothing but drag events arrived since the drag started,
\* cancelled whether an undo took effect since the drag started.
NoGesture == [active |-> FALSE, fieldId |-> NoId, index |-> NoIndex, mid |-> FALSE,
              startPts |-> << >>, last |-> << >>, fresh |-> FALSE,
              clean |-> FALSE, cancelled |-> FALSE]

\* base, edits, undos: the view before the first of the current run of
\* committed edits, the number of edits in the run, and the number of undos
\* that followed it.  drawn, clicks: nothing but map clicks arrived since the
\* create option was chosen, and the points clicked since.
NoRun == [base |-> << >>, edits |-> 0, undos |-> 0, drawn |-> FALSE, clicks |-> << >>]

\* op: the last event.  noop: it was an undo at cursor 0 or a redo at the last
\* entry.  cut: the number of history entries its snapshot discarded.
\* undoPre: the view before it, when it is an undo that took effect with no
\* edit session active.  marker: the marker the pointer has just released, or
\* still holds after the event took the marker off the map.  over: the
\* selected field of the movement that was under way when this event started
\* a movement, and whether the event before had started it.  loadFailed: it
\* is the mount and the stored value did not parse.
NoLast == [op |-> "init", noop |-> FALSE, over |-> << >>, cut |-> 0,
           undoPre |-> << >>, marker |-> << >>, loadFailed |-> FALSE]

\* op: the calculation called; index, newLength: its arguments besides the
\* points; area, per, out: what it returned (out is the address of the
\* returned array).
NoCalc == [op |-> "none", index |-> NoIndex, newLength |-> 0,
           area |-> 0, per |-> << >>, out |-> NoId]

\* useState(false) / useState(null), and no getCurrentPosition call under way
NoLocate == [isLocating |-> FALSE, userLocation |-> << >>, request |-> "none"]

Init ==
  /\ mounted = FALSE
  /\ isDrawing = FALSE
  /\ fields = << >>
  /\ fieldsRef = 1
  /\ refCount = 1
  /\ currentField = << >>
  /\ heap = << >>
  /\ history = << >>
  /\ historyIndex = -1
  /\ shouldSaveToHistory = FALSE
  /\ selectedPoint = NoIndex
  /\ selectedFieldId = NoId
  /\ hoveredPoint = NoIndex
  /\ isMovingPoint = FALSE
  /\ tempPoints = << >>
  /\ isMovingRef = FALSE
  /\ currentPointsRef = << >>
  /\ mapDraggable = TRUE
  /\ storage \in InitialStorage
  /\ now = 2
  /\ timers = << >>
  /\ gesture = NoGesture
  /\ steps = 0
  /\ ghost = NoRun
  /\ last = NoLast
  /\ calc = NoCalc
  /\ locate = NoLocate

\* --------------------------------------------------------------- actions
\* An event is delivered: its handler has taken the hook state to h, the
\* renders and effects that follow settle, and the result is the new state.
Deliver(h) ==
  /\ steps < MaxSteps
  /\ steps' = steps + 1
  /\ \E s \in {St}, hv \in {h} :
       \E post \in {Settle(s, hv)} :
         \E c \in {Canon(post)} : Install(c)
  /\ UNCHANGED << calc, locate >>

\* the gesture after an event that is not part of it: it goes on, no longer
\* clean, while the dragged marker is still rendered
Interrupted(s) ==
  IF /\ gesture.active
     /\ IF gesture.mid THEN MidMarker(s, gesture.fieldId, gesture.index)
        ELSE DragMarker(s, gesture.fieldId, gesture.index)
  THEN [gesture EXCEPT !.clean = FALSE]
  ELSE NoGesture

\* where the dragged marker is when the pointer lets go of it
DropPoints ==
  IF Len(gesture.last) = 1 THEN { gesture.last[1] }
  ELSE IF gesture.index < Len(gesture.startPts)
       THEN { gesture.startPts[gesture.index + 1] }
       ELSE DragPoints

\* the marker of the gesture, as last.marker records it
Held == << [fieldId |-> gesture.fieldId, index |-> gesture.index,
            mid |-> gesture.mid, clean |-> gesture.clean, at |-> DropPoints] >>

\* the marker the pointer still holds after an event took it off the map
Lost(s) == IF gesture.active /\ ~Interrupted(s).active THEN Held ELSE << >>

\* where the pointer grabs a midpoint marker
GrabPoints == { Pt(1, 2) }

\* point p occurs in some points array
Occurs(s, p) ==
  \E a \in 1..Len(s.heap) : \E i \in 1..Len(s.heap[a]) : s.heap[a][i] = p

RunOpen == Len(ghost.base) = 1 /\ ghost.undos = 0

\* the run after a committed edit, which counts when its snapshot was taken
RunEdit ==
  IF historyIndex' # historyIndex + 1 THEN NoRun
  ELSE IF RunOpen THEN [ghost EXCEPT !.edits = @ + 1]
  ELSE [NoRun EXCEPT !.base = << View(St) >>, !.edits = 1]

\* the run after the start of a drag, which a later commit makes an edit
RunStart ==
  IF RunOpen THEN [ghost EXCEPT !.drawn = FALSE, !.clicks = << >>]
  ELSE [NoRun EXCEPT !.base = << View(St) >>]

\* the events whose handlers call handleMovementStart
StartOps == {"markerClick", "dragStart", "midDragStart"}

\* the observation of an event after which the handler left the cursor at k
Event(name, k) ==
  [op |-> name, noop |-> FALSE,
   over |-> IF name \in StartOps /\ isMovingRef
            THEN << [fieldId |-> selectedFieldId, atOnce |-> last.op \in StartOps] >>
            ELSE << >>,
   cut |-> IF historyIndex' = k + 1 /\ k < Len(history) - 1
           THEN Len(history) - 1 - k ELSE 0,
   undoPre |-> << >>, marker |-> << >>,
   loadFailed |-> name = "mount" /\ storage.kind = "corrupt"]

\* The first render: every effect runs once against the initial state.
FirstRender(s) == [EffectsOf(s, s, TRUE) EXCEPT !.mounted = TRUE]

\* The mount: first render, its effects, and the renders they cause.
Mount ==
  /\ ~mounted
  /\ Deliver(FirstRender(St))
  /\ gesture' = gesture
  /\ ghost' = NoRun
  /\ last' = Event("mount", historyIndex)

\* A click on the map at point p, where no vertex marker is (a click on a
\* marker is the marker's and does not reach the map)
MapClick ==
  /\ mounted /\ ~gesture.active
  /\ \E p \in ClickPoints,
        t \in IF isDrawing /\ ~HasCF(St) THEN {now, now + 1} ELSE {now} :
       /\ t <= MaxClock
       /\ ~Contains(St, p)
       /\ HasCF(St) => Len(heap[CF(St).points]) < MaxPts
       /\ Deliver(handleMapClick(St, p, t))
       /\ ghost' = IF isDrawing
                   THEN [RunEdit EXCEPT
                           !.drawn = ghost.drawn,
                           !.clicks = IF ghost.drawn THEN Append(ghost.clicks, p)
                                      ELSE << >>]
                   ELSE NoRun
  /\ gesture' = gesture
  /\ last' = Event("mapClick", historyIndex)

\* The create menu's "field" option
CreateField ==
  /\ mounted /\ ~gesture.active
  /\ \E t \in {now, now + 1} :
       /\ t <= MaxClock
       /\ Deliver(handleCreateOption(St, t))
  /\ gesture' = gesture
  /\ ghost' = [RunEdit EXCEPT !.drawn = TRUE, !.clicks = << >>]
  /\ last' = Event("createField", historyIndex)

\* A click on a vertex marker that is not the selected one
MarkerClick ==
  /\ mounted /\ ~gesture.active
  /\ \E fieldId \in FieldIds(St) \cup {NoId}, index \in 0..(MaxPts - 1) :
       /\ IF fieldId # NoId THEN CommittedMarker(St, fieldId, index)
          ELSE HasCF(St) /\ index < Len(heap[CF(St).points])
       /\ ~Selected(St, fieldId, index)
       /\ Deliver(handleMarkerClick(St, index, fieldId))
  /\ gesture' = gesture
  /\ ghost' = NoRun
  /\ last' = Event("markerClick", historyIndex)

\* The pointer starts dragging a vertex marker
DragStart ==
  /\ mounted /\ ~gesture.active
  /\ \E fieldId \in FieldIds(St) \cup {NoId}, index \in 0..(MaxPts - 1) :
       /\ DragMarker(St, fieldId, index)
       /\ Deliver(handleMarkerDragStart(St, index, fieldId))
       /\ gesture' = [active |-> TRUE, fieldId |-> fieldId, index |-> index,
                       mid |-> FALSE,
                       startPts |-> heap[PointsOf(St, fieldId)[1]],
                       last |-> << >>, fresh |-> FALSE, clean |-> TRUE,
                       cancelled |-> FALSE]
  /\ ghost' = RunStart
  /\ last' = Event("dragStart", historyIndex)

\* The pointer moves the dragged marker to p
Drag ==
  /\ mounted /\ gesture.active /\ ~gesture.mid
  /\ \E p \in DragPoints :
       /\ Deliver(IF gesture.fieldId # NoId
                  THEN onDragCommitted(St, p, gesture.index, gesture.fieldId)
                  ELSE onDragCurrent(St, p))
       /\ gesture' = [gesture EXCEPT
                         !.last = << p >>,
                         !.fresh = IF gesture.last = << p >> THEN @
                                   ELSE ~Occurs(St, p)]
  /\ ghost' = ghost
  /\ last' = Event("drag", historyIndex)

\* The pointer releases the dragged marker where it last dragged it to
DragEnd ==
  /\ mounted /\ gesture.active /\ ~gesture.mid
  /\ \E p \in DropPoints :
       Deliver(IF gesture.fieldId # NoId
               THEN onDragEndCommitted(St, p, gesture.index, gesture.fieldId)
               ELSE onDragEndCurrent(St))
  /\ gesture' = NoGesture
  /\ ghost' = IF RunOpen /\ gesture.clean THEN RunEdit ELSE NoRun
  /\ last' = [Event("dragEnd", historyIndex) EXCEPT !.marker = Held]

\* The undo button (setters.undo)
Undo ==
  /\ mounted
  /\ Deliver(undo(St))
  /\ gesture' = LET g == Interrupted(St')
                 IN IF g.active /\ canUndo(St) THEN [g EXCEPT !.cancelled = TRUE]
                    ELSE g
  /\ ghost' = IF canUndo(St) /\ Len(ghost.base) = 1 /\ ~gesture.active
              THEN [ghost EXCEPT !.undos = @ + 1, !.drawn = FALSE, !.clicks = << >>]
              ELSE NoRun
  /\ last' = [Event("undo", undo(St).historyIndex) EXCEPT
                !.noop = ~canUndo(St),
                !.undoPre = IF canUndo(St) /\ ~isMovingRef /\ ~gesture.active
                            THEN << View(St) >> ELSE << >>,
                !.marker = Lost(St')]

\* The redo button (setters.redo)
Redo ==
  /\ mounted
  /\ Deliver(redo(St))
  /\ gesture' = Interrupted(St')
  /\ ghost' = NoRun
  /\ last' = [Event("redo", redo(St).historyIndex) EXCEPT
                !.noop = ~canRedo(St), !.marker = Lost(St')]

\* The clear-all button (setters.clearSavedFields)
ClearAll ==
  /\ mounted
  /\ Deliver(clearSavedFields(St))
  /\ gesture' = Interrupted(St')
  /\ ghost' = NoRun
  /\ last' = [Event("clearAll", historyIndex) EXCEPT !.marker = Lost(St')]

\* Mouse over the first vertex marker of some field, or out of a marker
Hover ==
  /\ mounted
  /\ \E index \in {NoIndex, 0} \ {hoveredPoint} :
       /\ index = 0 => MarkerAt(St, 0)
       /\ Deliver(handleMarkerHover(St, index))
  /\ gesture' = gesture
  /\ ghost' = IF gesture.active THEN ghost ELSE NoRun
  /\ last' = Event("hover", historyIndex)

\* The onDragEnd handler of the marker just released runs once more, no drag
\* having started in between
DragEndAgain ==
  /\ mounted /\ ~gesture.active
  /\ last.op = "dragEnd" /\ Len(last.marker) = 1
  /\ \E m \in {last.marker[1]} :
       /\ DragMarker(St, m.fieldId, m.index)
       /\ \E p \in m.at :
            Deliver(IF m.fieldId # NoId
                    THEN onDragEndCommitted(St, p, m.index, m.fieldId)
                    ELSE onDragEndCurrent(St))
  /\ gesture' = NoGesture
  /\ ghost' = NoRun
  /\ last' = Event("dragEndAgain", historyIndex)

\* The pointer lets go after the event before took the dragged marker off the
\* map: the marker's onDragEnd handler of the latest render runs
DragEndLost ==
  /\ mounted /\ ~gesture.active
  /\ last.op \in {"undo", "redo", "clearAll"} /\ Len(last.marker) = 1
  /\ \E m \in {last.marker[1]} :
       \E p \in m.at :
         Deliver(IF m.mid THEN onMidDragEnd(St)
                 ELSE IF m.fieldId # NoId
                      THEN onDragEndCommitted(St, p, m.index, m.fieldId)
                      ELSE onDragEndCurrent(St))
  /\ gesture' = NoGesture
  /\ ghost' = NoRun
  /\ last' = Event("dragEndLost", historyIndex)

\* The pointer starts dragging the midpoint marker after vertex index
MidDragStart ==
  /\ mounted /\ ~gesture.active
  /\ \E p \in GrabPoints, index \in 0..(MaxPts - 1) :
       \/ \E k \in 1..Len(fields) :
            \E points \in {RenderedPoints(St, fields[k])} :
              /\ index < Len(points) - 1
              /\ Len(points) <= MaxPts
              /\ Deliver(onMidDragStartCommitted(St, p, index, fields[k].id, points))
              /\ gesture' = [active |-> TRUE, fieldId |-> fields[k].id,
                              index |-> index, mid |-> TRUE, startPts |-> points,
                              last |-> << p >>, fresh |-> ~Occurs(St, p),
                              clean |-> TRUE, cancelled |-> FALSE]
       \/ /\ MidMarker(St, NoId, index)
          /\ Len(heap[CF(St).points]) <= MaxPts
          /\ Deliver(onMidDragStartCurrent(St, p, index))
          /\ gesture' = [active |-> TRUE, fieldId |-> NoId,
                          index |-> index, mid |-> TRUE,
                          startPts |-> heap[CF(St).points],
                          last |-> << p >>, fresh |-> ~Occurs(St, p),
                          clean |-> TRUE, cancelled |-> FALSE]
  /\ ghost' = NoRun
  /\ last' = Event("midDragStart", historyIndex)

\* The pointer moves the dragged midpoint marker to p
MidDrag ==
  /\ mounted /\ gesture.active /\ gesture.mid
  /\ \E p \in DragPoints :
       /\ Deliver(onMidDrag(St, p, gesture.fieldId))
       /\ gesture' = [gesture EXCEPT
                         !.last = << p >>,
                         !.clean = FALSE,
                         !.fresh = IF gesture.last = << p >> THEN @
                                   ELSE ~Occurs(St, p)]
  /\ ghost' = NoRun
  /\ last' = Event("midDrag", historyIndex)

\* The pointer releases the dragged midpoint marker
MidDragEnd ==
  /\ mounted /\ gesture.active /\ gesture.mid
  /\ Deliver(onMidDragEnd(St))
  /\ gesture' = NoGesture
  /\ ghost' = NoRun
  /\ last' = [Event("midDragEnd", historyIndex) EXCEPT !.marker = Held]

Next ==
  \/ Mount
  \/ MapClick
  \/ CreateField
  \/ MarkerClick
  \/ DragStart
  \/ Drag
  \/ DragEnd
  \/ Undo
  \/ Redo
  \/ ClearAll
  \/ Hover

Spec == Init /\ [][Next]_vars

\* ------------------------------------------- editing a field drawn before
\* The hook state before the mount, with nothing stored
Fresh ==
  [ mounted |-> FALSE, isDrawing |-> FALSE, fields |-> << >>, fieldsRef |-> 1,
    refCount |-> 1, currentField |-> << >>, heap |-> << >>, history |-> << >>,
    historyIndex |-> -1, shouldSaveToHistory |-> FALSE, selectedPoint |-> NoIndex,
    selectedFieldId |-> NoId, hoveredPoint |-> NoIndex, isMovingPoint |-> FALSE,
    tempPoints |-> << >>, isMovingRef |-> FALSE, currentPointsRef |-> << >>,
    mapDraggable |-> TRUE, storage |-> [kind |-> "none", val |-> << >>],
    now |-> 2, timers |-> << >> ]

\* the state an event leaves, its handler having taken state s to h
After(s, h) == CHOOSE c \in { Canon(post) : post \in {Settle(s, h)} } : TRUE

\* The state after the mount, the create option, two map clicks and the
\* create option again: one committed field of two points and an empty
\* current field, in drawing mode.
Drawn ==
  CHOOSE s5 \in
    { After(s4, handleCreateOption(s4, 3)) :
        s4 \in { After(s3, handleMapClick(s3, Pt(0, 0), 2)) :
          s3 \in { After(s2, handleMapClick(s2, Pt(1, 0), 2)) :
            s2 \in { After(s1, handleCreateOption(s1, 2)) :
              s1 \in { After(Fresh, FirstRender(Fresh)) } } } } } : TRUE

InitEdit ==
  \E d \in {Drawn} :
    /\ mounted = d.mounted
    /\ isDrawing = d.isDrawing
    /\ fields = d.fields
    /\ fieldsRef = d.fieldsRef
    /\ refCount = d.refCount
    /\ currentField = d.currentField
    /\ heap = d.heap
    /\ history = d.history
    /\ historyIndex = d.historyIndex
    /\ shouldSaveToHistory = d.shouldSaveToHistory
    /\ selectedPoint = d.selectedPoint
    /\ selectedFieldId = d.selectedFieldId
    /\ hoveredPoint = d.hoveredPoint
    /\ isMovingPoint = d.isMovingPoint
    /\ tempPoints = d.tempPoints
    /\ isMovingRef = d.isMovingRef
    /\ currentPointsRef = d.currentPointsRef
    /\ mapDraggable = d.mapDraggable
    /\ storage = d.storage
    /\ now = d.now
    /\ timers = d.timers
    /\ gesture = NoGesture
    /\ steps = 0
    /\ ghost = [NoRun EXCEPT !.drawn = TRUE]
    /\ last = [NoLast EXCEPT !.op = "createField"]
    /\ calc = NoCalc
    /\ locate = NoLocate

NextEdit ==
  \/ MapClick
  \/ MarkerClick
  \/ DragStart
  \/ Drag
  \/ DragEnd
  \/ DragEndAgain
  \/ DragEndLost
  \/ MidDragStart
  \/ MidDrag
  \/ MidDragEnd
  \/ Undo
  \/ Redo
  \/ ClearAll

SpecEdit == InitEdit /\ [][NextEdit]_vars

\* ------------------------------------- the debounced recompute's timeout
\* The state after the mount, the create option and three map clicks: a
\* current field of three points in drawing mode, the timeout of the
\* debounced recompute pending.
Measured ==
  CHOOSE s5 \in
    { After(s4, handleMapClick(s4, Pt(1, 1), 2)) :
        s4 \in { After(s3, handleMapClick(s3, Pt(0, 1), 2)) :
          s3 \in { After(s2, handleMapClick(s2, Pt(0, 0), 2)) :
            s2 \in { After(s1, handleCreateOption(s1, 2)) :
              s1 \in { After(Fresh, FirstRender(Fresh)) } } } } } : TRUE

InitTimer ==
  /\ \E d \in {Measured} :
       /\ mounted = d.mounted
       /\ isDrawing = d.isDrawing
       /\ fields = d.fields
       /\ fieldsRef = d.fieldsRef
       /\ refCount = d.refCount
       /\ currentField = d.currentField
       /\ heap = d.heap
       /\ history = d.history
       /\ historyIndex = d.historyIndex
       /\ shouldSaveToHistory = d.shouldSaveToHistory
       /\ selectedPoint = d.selectedPoint
       /\ selectedFieldId = d.selectedFieldId
       /\ hoveredPoint = d.hoveredPoint
       /\ isMovingPoint = d.isMovingPoint
       /\ tempPoints = d.tempPoints
       /\ isMovingRef = d.isMovingRef
       /\ currentPointsRef = d.currentPointsRef
       /\ mapDraggable = d.mapDraggable
       /\ storage = d.storage
       /\ now = d.now
       /\ timers = d.timers
  /\ gesture = NoGesture
  /\ steps = 0
  /\ ghost = NoRun
  /\ last = [NoLast EXCEPT !.op = "mapClick"]
  /\ calc = NoCalc
  /\ locate = NoLocate

\* A pending timeout of the debounced recompute fires
Timeout ==
  /\ mounted
  /\ \E i \in 1..Len(timers) : Deliver(onTimeout(St, i))
  /\ gesture' = gesture
  /\ ghost' = ghost
  /\ last' = Event("timeout", historyIndex)

NextTimer ==
  \/ MapClick
  \/ MarkerClick
  \/ DragStart
  \/ Drag
  \/ DragEnd
  \/ Undo
  \/ Redo
  \/ Timeout

SpecTimer == InitTimer /\ [][NextTimer]_vars

\* ------------------------------------------------------- geolocation
\* where the provider finds the user
LocationPoints == { Pt(1, 1) }

\* the error callback leaving the locating flag as it is
onPositionErrorKeepingFlag(l) == [l EXCEPT !.request = "none"]

\* handleLocationClick: setIsLocating(true), then getCurrentPosition when the
\* browser has navigator.geolocation, else the alert and setIsLocating(false)
\* in the same handler.
handleLocationClick(l, supported) ==
  IF supported
  THEN [l EXCEPT !.isLocating = TRUE, !.request = "pending"]
  ELSE [l EXCEPT !.isLocating = FALSE]

\* the success callback of getCurrentPosition
onPosition(l, newLocation) ==
  [l EXCEPT !.userLocation = << newLocation >>, !.isLocating = FALSE,
            !.request = "none"]

\* the error callback of getCurrentPosition (refusal, failure, timeout)
onPositionError(l) == [l EXCEPT !.isLocating = FALSE, !.request = "none"]

\* The location button, which is disabled while isLocating
LocationClick ==
  /\ mounted /\ ~locate.isLocating
  /\ steps < MaxSteps
  /\ steps' = steps + 1
  /\ UNCHANGED << hookVars, gesture, ghost, calc >>
  /\ \E supported \in BOOLEAN :
       /\ locate' = handleLocationClick(locate, supported)
       /\ last' = Event(IF supported THEN "locationClick" ELSE "locationUnsupported",
                        historyIndex)

\* The provider reports a position
LocationFound ==
  /\ locate.request = "pending"
  /\ UNCHANGED << hookVars, gesture, steps, ghost, calc >>
  /\ \E newLocation \in LocationPoints : locate' = onPosition(locate, newLocation)
  /\ last' = Event("locationFound", historyIndex)

\* The provider reports an error, at the latest when its timeout expires
LocationError ==
  /\ locate.request = "pending"
  /\ UNCHANGED << hookVars, gesture, steps, ghost, calc >>
  /\ locate' = onPositionError(locate)
  /\ last' = Event("locationError", historyIndex)

NextLocate ==
  \/ Mount
  \/ CreateField
  \/ MapClick
  \/ LocationClick
  \/ LocationFound
  \/ LocationError

\* getCurrentPosition is called with a timeout: the provider calls one of the
\* two callbacks for every request.
SpecLocate ==
  Init /\ [][NextLocate]_vars /\ WF_vars(LocationFound \/ LocationError)

\* ------------------------------------------- the calculations on their own
\* The hook before its mount, with one points array on the heap: the
\* argument of the calculation that is called next.
InitCalc ==
  /\ mounted = FALSE
  /\ isDrawing = FALSE
  /\ fields = << >>
  /\ fieldsRef = 1
  /\ refCount = 1
  /\ currentField = << >>
  /\ \E n \in 0..MaxPts : \E pts \in [1..n -> CalcPoints] : heap = << pts >>
  /\ history = << >>
  /\ historyIndex = -1
  /\ shouldSaveToHistory = FALSE
  /\ selectedPoint = NoIndex
  /\ selectedFieldId = NoId
  /\ hoveredPoint = NoIndex
  /\ isMovingPoint = FALSE
  /\ tempPoints = << >>
  /\ isMovingRef = FALSE
  /\ currentPointsRef = << >>
  /\ mapDraggable = TRUE
  /\ storage = [kind |-> "none", val |-> << >>]
  /\ now = 2
  /\ timers = << >>
  /\ gesture = NoGesture
  /\ steps = 0
  /\ ghost = NoRun
  /\ last = NoLast
  /\ calc = NoCalc
  /\ locate = NoLocate

\* the scaled offsets of edge index are whole numbers of the grid
Exact(pts, index, newLength) ==
  LET point1 == pts[index + 1]
      point2 == pts[((index + 1) % Len(pts)) + 1]
      currentLength == computeDistanceBetween(point1, point2)
  IN IF currentLength = 0 THEN TRUE
     ELSE /\ ((point2.lat - point1.lat) * newLength) % currentLength = 0
          /\ ((point2.lng - point1.lng) * newLength) % currentLength = 0

CalculateArea ==
  /\ calc.op = "none"
  /\ calc' = [calc EXCEPT !.op = "area", !.area = calculateArea(heap[1])]
  /\ UNCHANGED << hookVars, gesture, steps, ghost, last, locate >>

CalculatePerimeter ==
  /\ calc.op = "none"
  /\ calc' = [calc EXCEPT !.op = "perimeter", !.per = << calculatePerimeter(heap[1]) >>]
  /\ UNCHANGED << hookVars, gesture, steps, ghost, last, locate >>

\* adjustLineLength on an edge a measurement label is drawn for
AdjustLineLength ==
  /\ calc.op = "none"
  /\ \E index \in 0..(Len(heap[1]) - 1), newLength \in LengthInputs :
       /\ Exact(heap[1], index, newLength)
       /\ Install(adjustLineLength(St, 1, index, newLength))
       /\ calc' = [calc EXCEPT !.op = "adjust", !.index = index,
                               !.newLength = newLength, !.out = NewAddr(St)]
  /\ UNCHANGED << gesture, steps, ghost, last, locate >>

NextCalc ==
  \/ CalculateArea
  \/ CalculatePerimeter
  \/ AdjustLineLength

SpecCalc == InitCalc /\ [][NextCalc]_vars

\* ------------------------------------------------------- sanity checks
\* The save-to-history flag is consumed by the render that follows its being set.
FlagConsumed == mounted => ~shouldSaveToHistory

\* ---------------------------------------------------------- properties
\* the points of the field with this id (of the current field for NoId)
PointsValue(s, fieldId) ==
  LET a == PointsOf(s, fieldId)
  IN IF Len(a) = 1 THEN s.heap[a[1]] ELSE << >>

\* the history by value
HistoryView(s) == [i \in 1..Len(s.history) |-> EntryView(s.history[i], s.heap)]

\* the drag went to a point other than the one the vertex started at
MovedPoint ==
  /\ Len(gesture.last) = 1
  /\ gesture.index < Len(gesture.startPts)
  /\ gesture.last[1] # gesture.startPts[gesture.index + 1]

\* C1: after a drag start on a field, one or more drags and the drag end, with
\* no other event in between, the field's points are the points at drag start
\* with the dragged vertex at the last point dragged to.
C1_CommitWritesDraggedPoint ==
  [][ (last'.op = "dragEnd" /\ gesture.clean /\ MovedPoint)
      => PointsValue(St', gesture.fieldId)
           = [gesture.startPts EXCEPT ![gesture.index + 1] = gesture.last[1]] ]_vars

\* C2: a drag event changes neither the committed fields nor the current field
\* (points, area, perimeter, measurements).
C2_DragIsolation ==
  [][ last'.op = "drag" => View(St') = View(St) ]_vars

\* C3: an undo that takes effect with no edit session active, followed at once
\* by a redo, brings fields and currentField back to what they were before the undo.
C3_UndoRedoRestores ==
  [][ (last.op = "undo" /\ Len(last.undoPre) = 1 /\ last'.op = "redo")
      => View(St') = last.undoPre[1] ]_vars

\* C4: after a run of k >= 1 committed edits, each with its snapshot, k undos in
\* a row bring fields and currentField back to what they were before the run.
C4_UndosRestoreBase ==
  (last.op = "undo" /\ ghost.undos >= 1 /\ ghost.undos = ghost.edits)
  => View(St) = ghost.base[1]

\* C5: undo at cursor 0 and redo at the last entry change neither fields,
\* currentField, the history, the cursor nor the selection and drag state.
C5_NoOpAtEnds ==
  [][ (\/ last'.op = "undo" /\ ~canUndo(St)
       \/ last'.op = "redo" /\ ~canRedo(St))
      => UNCHANGED << fields, fieldsRef, currentField, heap, history, historyIndex,
                      selectedPoint, selectedFieldId, hoveredPoint, isMovingPoint,
                      tempPoints, isMovingRef, currentPointsRef >> ]_vars

\* a redo at the last entry has just left a selected vertex selected
C5_Witness ==
  last.op = "redo" /\ last.noop /\ selectedPoint # NoIndex /\ Len(tempPoints) > 0

C7_OneEntryAfterInit ==
  last.op = "mount"
  => /\ Len(history) = 1
     /\ historyIndex = 0
     /\ ~canUndo(St)
     /\ EntryView(history[1], heap) = View(St)

\* C8: a drag event changes neither the history nor the cursor, and the end of
\* a drag that moved a point, with no other event in between, appends one snapshot.
C8_NoSnapshotWhileDragging ==
  [][ /\ last'.op = "drag"
         => HistoryView(St') = HistoryView(St) /\ historyIndex' = historyIndex
      /\ (last'.op = "dragEnd" /\ gesture.clean /\ MovedPoint)
         => /\ Len(history') = historyIndex + 2
            /\ historyIndex' = historyIndex + 1 ]_vars

\* C9: after an undo or a redo has taken effect nothing is selected or hovered,
\* the draft is empty and no moving flag is set.
C9_NoSessionAfterUndoRedo ==
  (last.op \in {"undo", "redo"} /\ ~last.noop)
  => /\ selectedPoint = NoIndex
     /\ selectedFieldId = NoId
     /\ hoveredPoint = NoIndex
     /\ tempPoints = << >>
     /\ currentPointsRef = << >>
     /\ ~isMovingPoint
     /\ ~isMovingRef

\* C10: an undo that takes effect during a drag leaves no dragged point in
\* fields or currentField, and the end of that drag changes neither.
C10_CancelDiscardsDraft ==
  [][ /\ (last'.op = "undo" /\ gesture.active /\ canUndo(St)
            /\ Len(gesture.last) = 1 /\ gesture.fresh)
         => ~Contains(St', gesture.last[1])
      /\ (last'.op = "dragEnd" /\ gesture.cancelled)
         => View(St') = View(St) ]_vars

\* no state or ref of an edit session is set and no marker is being dragged
NoSession ==
  /\ ~isMovingPoint
  /\ ~isMovingRef
  /\ selectedPoint = NoIndex
  /\ ~gesture.active

C12_CommitIdempotent ==
  [][ last'.op = "dragEndAgain" => View(St') = View(St) ]_vars

\* C13: a drag start on the midpoint marker after vertex i of a field of n
\* points, grabbing it at m, followed at once by the drag end, leaves the field
\* with n + 1 points: m at position i + 1, the points up to i where they
\* were, the points after i moved up by one.
C13_MidpointInsertion ==
  [][ (last'.op = "midDragEnd" /\ gesture.clean)
      => LET start == gesture.startPts
             n == Len(start)
             i == gesture.index
             pts == PointsValue(St', gesture.fieldId)
         IN /\ Len(pts) = n + 1
            /\ pts[i + 2] = gesture.last[1]
            /\ \A j \in 1..(i + 1) : pts[j] = start[j]
            /\ \A j \in (i + 2)..n : pts[j + 1] = start[j] ]_vars

\* a midpoint drag that was released at once has just put its grab point
\* into a field between two of its vertices
C13_Witness ==
  /\ last.op = "midDragEnd"
  /\ Len(last.marker) = 1
  /\ last.marker[1].clean
  /\ \E m \in {last.marker[1]} :
       \E pts \in {PointsValue(St, m.fieldId)} :
         /\ Len(pts) >= 3
         /\ m.index + 2 < Len(pts)
         /\ pts[m.index + 2] \in GrabPoints

C15_CommitOnRemovedTarget ==
  [][ (/\ last'.op = "dragEndLost"
       /\ last.op \in {"undo", "clearAll"}
       /\ last.marker[1].fieldId # NoId
       /\ last.marker[1].fieldId \notin FieldIds(St))
      => /\ View(St') = View(St)
         /\ ~isMovingPoint' /\ ~isMovingRef'
         /\ selectedPoint' = NoIndex /\ selectedFieldId' = NoId
         /\ currentPointsRef' = << >> ]_vars

\* the committed field the last create option appended
LastField(s) == View(s).fields[Len(s.fields)]

\* C16: the create option chosen while the current field has one or more
\* points appends that field, its points as they were, after the committed
\* fields, which stay as they were, and installs an empty current field.
C16_CreateKeepsCurrent ==
  [][ (last'.op = "createField" /\ HasCF(St) /\ Len(heap[CF(St).points]) >= 1)
      => /\ Len(fields') = Len(fields) + 1
         /\ SubSeq(View(St').fields, 1, Len(fields)) = View(St).fields
         /\ LastField(St').id = CF(St).id
         /\ LastField(St').points = heap[CF(St).points]
         /\ HasCF(St')
         /\ heap'[CF(St').points] = << >> ]_vars

\* the create option has just appended a drawn field of two or more points
\* after another committed field
C16_Witness ==
  /\ last.op = "createField"
  /\ Len(fields) >= 2
  /\ Len(LastField(St).points) >= 2
  /\ \A i \in 1..Len(LastField(St).points) : LastField(St).points[i] \in ClickPoints
  /\ HasCF(St)
  /\ LastField(St).id # CF(St).id

\* C17: the ids of the committed fields are pairwise distinct and distinct
\* from the id of the current field.
C17_UniqueIds ==
  /\ \A i, j \in 1..Len(fields) : i # j => fields[i].id # fields[j].id
  /\ HasCF(St) => \A i \in 1..Len(fields) : fields[i].id # CF(St).id

\* C18: the create option chosen after N >= 2 map clicks in drawing mode, and
\* nothing else, since the create option before, appends a field whose points
\* are the N clicked points in click order, with N measurements and the area
\* of those points.
C18_ClicksThenFinalize ==
  [][ (last'.op = "createField" /\ ghost.drawn /\ Len(ghost.clicks) >= 2)
      => /\ Len(fields') >= 1
         /\ LastField(St').points = ghost.clicks
         /\ Len(LastField(St').measurements) = Len(ghost.clicks)
         /\ LastField(St').area = calculateArea(ghost.clicks) ]_vars

\* C18 as stated, for every N >= 1
C18_AnyNumberOfClicks ==
  [][ (last'.op = "createField" /\ ghost.drawn /\ Len(ghost.clicks) >= 1)
      => /\ Len(fields') >= 1
         /\ LastField(St').points = ghost.clicks
         /\ Len(LastField(St').measurements) = Len(ghost.clicks)
         /\ LastField(St').area = calculateArea(ghost.clicks) ]_vars

\* the create option has just appended a field of three points drawn by
\* three clicks, with three measurements and a non-zero area
C18_Witness ==
  /\ last.op = "createField"
  /\ Len(fields) >= 1
  /\ Len(LastField(St).points) = 3
  /\ \A i \in 1..3 : LastField(St).points[i] \in ClickPoints
  /\ Len(LastField(St).measurements) = 3
  /\ LastField(St).area > 0

\* C19: a map click while drawing mode is off changes neither fields,
\* currentField, the history nor the cursor; a map click in drawing mode adds
\* one point after the points of the current field and changes no committed field.
C19_ClickFrame ==
  [][ last'.op = "mapClick"
      => IF ~isDrawing
         THEN /\ View(St') = View(St)
              /\ HistoryView(St') = HistoryView(St)
              /\ historyIndex' = historyIndex
         ELSE /\ View(St').fields = View(St).fields
              /\ HasCF(St')
              /\ LET old == PointsValue(St, NoId)
                     new == PointsValue(St', NoId)
                 IN /\ Len(new) = Len(old) + 1
                    /\ SubSeq(new, 1, Len(old)) = old
                    /\ new[Len(new)] \in ClickPoints ]_vars

\* a map click in drawing mode has just added a second point to the current
\* field, a committed field being there
C19_Witness ==
  /\ last.op = "mapClick"
  /\ isDrawing
  /\ Len(fields) >= 1
  /\ HasCF(St)
  /\ Len(heap[CF(St).points]) = 2

C21_UpdateTouchesOnlyTarget ==
  [][ \A target \in {gesture.fieldId} :
        last'.op \in {"dragEnd", "midDragEnd"}
        => /\ Len(fields') = Len(fields)
           /\ \A k \in 1..Len(fields) :
                /\ fields'[k].id = fields[k].id
                /\ fields[k].id # target
                     => View(St').fields[k] = View(St).fields[k]
           /\ target # NoId => View(St').currentField = View(St).currentField ]_vars

\* C22: after the clear-all button and the effects it triggers, the committed
\* collection is empty and the storage key is removed.
C22_ClearAllRemovesKey ==
  [][ last'.op = "clearAll"
      => /\ fields' = << >>
         /\ storage'.kind = "none" ]_vars

\* the events that change the committed collection
PersistOps == {"createField", "dragEnd", "midDragEnd", "undo", "redo"}

\* C23: in the quiescent state after an event that changed the committed
\* collection, the stored value is the serialization of the committed collection.
C23_StorageFollowsFields ==
  [][ (last'.op \in PersistOps /\ View(St').fields # View(St).fields)
      => storage' = Stringify(St') ]_vars

\* C24: when the stored value does not parse at the mount, the committed
\* collection starts empty and the whole state after the mount is the state
\* after a mount that found no stored value, so that every later operation
\* behaves as from an empty initial state.
C24_LoadFailureIsEmpty ==
  [][ (last'.op = "mount" /\ storage.kind = "corrupt")
      => /\ mounted'
         /\ fields' = << >>
         /\ \E s \in {[St EXCEPT !.storage = [kind |-> "none", val |-> << >>]]} :
              St' = After(s, FirstRender(s)) ]_vars

\* the mount has just found a stored value that does not parse
C24_Witness ==
  /\ last.op = "mount"
  /\ last.loadFailed
  /\ mounted
  /\ fields = << >>

\* C25: every committed field, and the current field, with two or more points
\* has as many measurement records as points.
C25_MeasurementsMatchPoints ==
  /\ \A k \in 1..Len(fields) :
        Len(heap[fields[k].points]) >= 2
          => Len(fields[k].measurements) = Len(heap[fields[k].points])
  /\ (HasCF(St) /\ Len(heap[CF(St).points]) >= 2)
        => Len(CF(St).measurements) = Len(heap[CF(St).points])

\* C26: the area of fewer than three points is 0, and the perimeter of fewer
\* than two points is a total distance of 0 with no measurement record.
C26_DegenerateInput ==
  /\ (calc.op = "area" /\ Len(heap[1]) < 3) => calc.area = 0
  /\ (calc.op = "perimeter" /\ Len(heap[1]) < 2)
       => calc.per = << [totalDistance |-> 0, lineMeasurements |-> << >>] >>

\* the perimeter of a single point has been computed
C26_Witness ==
  /\ calc.op = "perimeter"
  /\ Len(heap[1]) = 1
  /\ calc.per[1].totalDistance = 0

\* the sum of the distances of edges i..n of the closed polygon pts
RECURSIVE EdgeSum(_, _)
EdgeSum(pts, i) ==
  IF i > Len(pts) THEN 0
  ELSE computeDistanceBetween(pts[i], pts[(i % Len(pts)) + 1]) + EdgeSum(pts, i + 1)

\* C27: the perimeter of n >= 2 points has n measurement records, record i
\* with the distance from point i to point (i+1) mod n and width 0, and a
\* total distance that is the sum of the n record lengths.
C27_PerimeterRecords ==
  (calc.op = "perimeter" /\ Len(heap[1]) >= 2)
  => LET pts == heap[1]
         n == Len(pts)
         ms == calc.per[1].lineMeasurements
     IN /\ Len(ms) = n
        /\ \A i \in 1..n :
             /\ ms[i].length = computeDistanceBetween(pts[i], pts[(i % n) + 1])
             /\ ms[i].width = 0
        /\ calc.per[1].totalDistance = EdgeSum(pts, 1)

\* the perimeter of three distinct points has been computed
C27_Witness ==
  /\ calc.op = "perimeter"
  /\ Len(heap[1]) = 3
  /\ Cardinality({heap[1][i] : i \in 1..3}) = 3
  /\ calc.per[1].totalDistance > 0

\* C28: adjustLineLength returns an array of the same length that differs
\* from its argument at most at index (i+1) mod n, and leaves the argument
\* as it was.
C28_AdjustFrame ==
  [][ calc'.op = "adjust"
      => LET n == Len(heap[1])
             j == ((calc'.index + 1) % n) + 1
             out == heap'[calc'.out]
         IN /\ Len(out) = n
            /\ \A k \in 1..n : k # j => out[k] = heap[1][k]
            /\ heap'[1] = heap[1] ]_vars

\* an edge of three points has been stretched: the array returned differs
\* from the argument
C28_Witness ==
  /\ calc.op = "adjust"
  /\ Len(heap[1]) = 3
  /\ calc.newLength > 0
  /\ heap[calc.out] # heap[1]
  /\ \A k \in 1..3 : heap[calc.out][k].lat # NaN

\* the edge of the points pts that starts at the 0-based index has length 0
ZeroEdge(pts, index) ==
  computeDistanceBetween(pts[index + 1], pts[((index + 1) % Len(pts)) + 1]) = 0

\* C29: adjustLineLength on an edge of length 0 returns its argument
\* unchanged, with no NaN coordinate.
C29_ZeroEdgeNoOp ==
  [][ (calc'.op = "adjust" /\ ZeroEdge(heap[1], calc'.index))
      => /\ heap'[calc'.out] = heap[1]
         /\ \A k \in 1..Len(heap'[calc'.out]) :
              /\ heap'[calc'.out][k].lat # NaN
              /\ heap'[calc'.out][k].lng # NaN ]_vars

\* the events with which a geolocation request ends
OutcomeOps == {"locationFound", "locationError", "locationUnsupported"}

\* C30: while a geolocation request is under way the locating flag is set;
\* a set flag is eventually cleared; and after every outcome (position,
\* error or timeout, geolocation unsupported) the flag is clear.
C30_LocatingFlagCleared ==
  /\ [](locate.request = "pending" => locate.isLocating)
  /\ (locate.isLocating ~> ~locate.isLocating)
  /\ [][last'.op \in OutcomeOps => ~locate'.isLocating]_vars

\* the provider has just reported an error for a request made after the
\* mount, and the flag is clear
C30_Witness ==
  /\ last.op = "locationError"
  /\ mounted
  /\ locate.request = "none"
  /\ ~locate.isLocating

\* C31: a hover event (the pointer enters or leaves a vertex marker) leaves
\* fields, currentField, the history, the cursor and the storage as they were.
C31_HoverFrame ==
  [][ last'.op = "hover"
      => /\ View(St') = View(St)
         /\ HistoryView(St') = HistoryView(St)
         /\ historyIndex' = historyIndex
         /\ storage' = storage ]_vars

\* the pointer has just entered a vertex marker, a history of two or more
\* entries being there
C31_Witness ==
  /\ last.op = "hover"
  /\ hoveredPoint = 0
  /\ Len(history) >= 2
  /\ Len(fields) >= 1

\* C32: after adjustLineLength on an edge of non-zero length, the distance
\* from point i to the new end point is newLength, and the new end point is
\* point i plus the old offset scaled by newLength / currentLength.
C32_RemeasuredLength ==
  [][ (calc'.op = "adjust" /\ ~ZeroEdge(heap[1], calc'.index))
      => LET n == Len(heap[1])
             point1 == heap[1][calc'.index + 1]
             point2 == heap[1][((calc'.index + 1) % n) + 1]
             newPoint2 == heap'[calc'.out][((calc'.index + 1) % n) + 1]
             currentLength == computeDistanceBetween(point1, point2)
         IN /\ computeDistanceBetween(point1, newPoint2) = calc'.newLength
            /\ currentLength * (newPoint2.lat - point1.lat)
                 = calc'.newLength * (point2.lat - point1.lat)
            /\ currentLength * (newPoint2.lng - point1.lng)
                 = calc'.newLength * (point2.lng - point1.lng) ]_vars

\* C33: a history entry that an event keeps (the same fields and current
\* field objects at the same position) holds after the event the field and
\* point values it held before.
C33_HistoryImmutable ==
  [][ \A i \in 1..Len(history) :
        (i <= Len(history') /\ history'[i] = history[i])
        => EntryView(history'[i], heap') = EntryView(history[i], heap) ]_vars

\* C37: after the mount the cursor is an index into the history:
\* 0 <= historyIndex <= history.length - 1.
C37_CursorInRange ==
  mounted => (0 <= historyIndex /\ historyIndex <= Len(history) - 1)

\* an undo has just taken effect and the effects after it recorded a
\* snapshot, which left the cursor at the last of three or more entries
C37_Witness ==
  /\ last.op = "undo"
  /\ ~last.noop
  /\ Len(history) >= 3
  /\ historyIndex = Len(history) - 1

\* C38: no committed field has zero points.
C38_NoEmptyCommittedField ==
  \A k \in 1..Len(fields) : Len(heap[fields[k].points]) >= 1

\* the current field carries the measures of its own points
SelfMeasured(s) ==
  LET pts == s.heap[CF(s).points]
  IN /\ CF(s).area = calculateArea(pts)
     /\ CF(s).perimeter = calculatePerimeter(pts).totalDistance
     /\ CF(s).measurements = calculatePerimeter(pts).lineMeasurements

\* C34: the timeout of the debounced recompute is reset, not accumulated: at
\* most one timeout is ever pending, it holds the points array of the
\* current field, and when it fires it leaves the current field as it was
\* or with the measures of the points the current field has by then.
C34_TimerReset ==
  [][ /\ Len(timers') <= 1
      /\ \A i \in 1..Len(timers') :
           HasCF(St') /\ timers'[i].currentField.points = CF(St').points
      /\ last'.op = "timeout"
         => /\ Len(timers') = 0
            /\ currentField' # currentField => SelfMeasured(St') ]_vars

\* C34: a timeout set before a drag moved a point in place has fired during
\* the drag and written the measures of the moved points
C34_Witness ==
  /\ last.op = "timeout" /\ gesture.active /\ Len(gesture.last) = 1
  /\ HasCF(St) /\ SelfMeasured(St)
  /\ heap[CF(St).points][gesture.index + 1] = gesture.last[1]
  /\ CF(St).area # calculateArea(gesture.startPts)

\* C35: whenever no drag and no movement is under way, every committed
\* field of three or more points carries the area, the perimeter and the
\* edge records calculateArea and calculatePerimeter give for its points.
C35_DerivedValuesCurrent ==
  (mounted /\ ~gesture.active /\ ~isMovingRef)
  => \A k \in 1..Len(fields) :
       LET pts == heap[fields[k].points]
       IN Len(pts) >= 3
          => /\ fields[k].area = calculateArea(pts)
             /\ fields[k].perimeter = calculatePerimeter(pts).totalDistance
             /\ fields[k].measurements = calculatePerimeter(pts).lineMeasurements

\* C36: the handleMarkerDrag call that the drag-end handler of a committed
\* field's marker makes after handleMovementEnd has ended the movement
\* changes nothing: the event leaves the committed fields, the current
\* field, the draft and the points of every recorded field as
\* handleMovementEnd alone leaves them.
C36_DragOutsideSession ==
  [][ (\/ last'.op = "dragEnd" /\ gesture.fieldId # NoId
       \/ last'.op = "dragEndAgain" /\ last.marker[1].fieldId # NoId)
      => \E base \in {After(St, handleMovementEnd(St))} :
           /\ View(St') = View(base)
           /\ HistoryView(St') = HistoryView(base)
           /\ tempPoints' = base.tempPoints ]_vars

\* C39: a selected point has a target: its field id names a committed field,
\* or is none while a current field exists, and the selected index is
\* within the points of that field.
C39_SelectionHasTarget ==
  selectedPoint # NoIndex
  => IF selectedFieldId # NoId
     THEN \E k \in 1..Len(fields) :
            /\ fields[k].id = selectedFieldId
            /\ selectedPoint < Len(heap[fields[k].points])
     ELSE HasCF(St) /\ selectedPoint < Len(heap[CF(St).points])

\* C40: the mount with a parseable collection S stored leaves S as the
\* committed collection and as the stored value, and the first render's
\* effects, which run before the loaded fields are rendered, leave the
\* stored value S as well.
C40_InitKeepsStore ==
  [][ (last'.op = "mount" /\ storage.kind = "json")
      => /\ DerefFields(fields', heap') = storage.val
         /\ storage' = storage
         /\ FirstRender(St).storage = storage ]_vars
====
